---- MODULE Spec2Model ----
(***************************************************************************)
(* Model of the split.io javascript client:                                *)
(*   - ds/splitChanges.js : the splitChanges data source and its cursor    *)
(*   - the equal-to-set matcher                                            *)
(*   - the GaToSplit integration (SplitTracker plugin, sendHitTask)        *)
(*   - partition selection of the split evaluator                          *)
(***************************************************************************)
EXTENDS Integers, Sequences, FiniteSets, TLC

(***************************************************************************)
(* Bounds of the model.                                                    *)
(***************************************************************************)
\* number of splitChangesDataSource() invocations explored
MaxCalls == 3
\* the server's change numbers (till) range over 0..MaxTill
MaxTill == 2

\* `let since = -1;`
InitialSince == -1

\* a whitelist or a candidate collection holds at most MaxLen elements
MaxLen == 3
\* a condition holds at most MaxPartitions partitions
MaxPartitions == 3

\* number of hits sent through the tracker
MaxHits == 2

VARIABLES
  since,      \* module-level cursor of ds/splitChanges.js
  calls,      \* one record per invocation of splitChangesDataSource()
  matcher,    \* the equal-to-set matcher: its whitelist, last input and outcome
  selection,  \* the last partition selection: partitions, bucket and outcome
  ga          \* the GaToSplit integration and the tracker that required the plugin

vars == <<since, calls, matcher, selection, ga>>

(***************************************************************************)
(* ds/splitChanges.js                                                      *)
(***************************************************************************)
CallIds == 1..MaxCalls
TillValues == 0..MaxTill

\* Raw splits as they come on the wire: name and status are all the data
\* source and the mutator contract look at.
RawActive   == [name |-> "s1", status |-> "ACTIVE"]
RawArchived == [name |-> "s2", status |-> "ARCHIVED"]

\* The `splits` member of the parsed body.  present = FALSE is a body without
\* a `splits` array (destructuring yields undefined).
SplitsPayloads ==
  { [present |-> FALSE, items |-> <<>>],
    [present |-> TRUE,  items |-> <<>>],
    [present |-> TRUE,  items |-> <<RawActive, RawArchived>>] }

NoSplits == [present |-> FALSE, items |-> <<>>]

\* splitMutatorFactory(splits) throws when there is no array to walk.
MutatorFails(splits) == ~splits.present

\* splitMutatorFactory(splits): archived splits are dropped, the others kept
\* by name.
RECURSIVE splitMutatorFactory(_)
splitMutatorFactory(items) ==
  IF items = <<>> THEN <<>>
  ELSE IF Head(items).status = "ARCHIVED"
       THEN splitMutatorFactory(Tail(items))
       ELSE <<Head(items).name>> \o splitMutatorFactory(Tail(items))

\* pc of an invocation:
\*   idle     not invoked yet
\*   fetch    splitChangesService(request) pending
\*   json     resp.json() pending
\*   then     the `json => {...}` handler is queued with the parsed body
\*   resolved the returned promise is fulfilled with `result`
\*   rejected the returned promise is rejected because of `error`
\* owner is the pipeline instance (consumer of the module) that made the call.
IdleCall ==
  [pc |-> "idle", reqSince |-> InitialSince, till |-> InitialSince,
   splits |-> NoSplits, result |-> <<>>, error |-> "none", owner |-> "p1"]

\* The pipeline instances that require the module: the module is loaded once
\* and each of them calls the one exported function.
Pipelines == {"p1", "p2"}

InFlight(c) == calls[c].pc \in {"fetch", "json", "then"}

\* A request that always carries the cursor of module load.
RequestSinceStale == InitialSince

\* The request built by splitChangesRequest({since}): it carries the cursor
\* read when splitChangesDataSource() is called.
RequestSince == since

\* The assignment `since = till;` of the last handler.
CursorAfter(till) == till

\* splitChangesDataSource(): lines 10-15, synchronous part.
Invoke(c) ==
  /\ calls[c].pc = "idle"
  /\ \A d \in CallIds : d < c => calls[d].pc # "idle"
  /\ calls' = [calls EXCEPT ![c].pc = "fetch", ![c].reqSince = RequestSince]
  /\ UNCHANGED <<since, matcher, selection, ga>>

\* The same, called by a scheduler that waits for the previous sync to settle.
InvokeSeq(c) ==
  /\ \A d \in CallIds : ~InFlight(d)
  /\ Invoke(c)

\* splitChangesDataSource() called by pipeline instance p, one sync at a time.
InvokeBy(p, c) ==
  /\ \A d \in CallIds : ~InFlight(d)
  /\ calls[c].pc = "idle"
  /\ \A d \in CallIds : d < c => calls[d].pc # "idle"
  /\ calls' = [calls EXCEPT ![c].pc = "fetch", ![c].reqSince = RequestSince,
                            ![c].owner = p]
  /\ UNCHANGED <<since, matcher, selection, ga>>

\* splitChangesService(...) fulfils with a response.
FetchResolve(c) ==
  /\ calls[c].pc = "fetch"
  /\ calls' = [calls EXCEPT ![c].pc = "json"]
  /\ UNCHANGED <<since, matcher, selection, ga>>

\* A transport error that also resets the cursor.
FetchRejectResetsCursor(c) ==
  /\ calls[c].pc = "fetch"
  /\ calls' = [calls EXCEPT ![c].pc = "rejected", ![c].error = "transport"]
  /\ since' = InitialSince
  /\ UNCHANGED <<matcher, selection, ga>>

\* splitChangesService(...) rejects: transport error.  Both `then` handlers
\* are skipped.
FetchReject(c) ==
  /\ calls[c].pc = "fetch"
  /\ calls' = [calls EXCEPT ![c].pc = "rejected", ![c].error = "transport"]
  /\ UNCHANGED <<since, matcher, selection, ga>>

\* `resp => resp.json()` fulfils with the parsed body {till, splits}.
JsonResolve(c, till, splits) ==
  /\ calls[c].pc = "json"
  /\ calls' = [calls EXCEPT ![c].pc = "then", ![c].till = till,
                            ![c].splits = splits]
  /\ UNCHANGED <<since, matcher, selection, ga>>

\* The same, answered by a server that never returns a till below the since
\* it was asked for.
JsonResolveMonotone(c, till, splits) ==
  /\ till >= calls[c].reqSince
  /\ JsonResolve(c, till, splits)

\* resp.json() rejects: the body is not JSON.  The last handler is skipped.
JsonReject(c) ==
  /\ calls[c].pc = "json"
  /\ calls' = [calls EXCEPT ![c].pc = "rejected", ![c].error = "parse"]
  /\ UNCHANGED <<since, matcher, selection, ga>>

\* The handler `json => { let {till, splits} = json; since = till;
\* return splitMutatorFactory(splits); }`.
ThenHandler(c) ==
  /\ calls[c].pc = "then"
  /\ since' = CursorAfter(calls[c].till)
  /\ IF MutatorFails(calls[c].splits)
     THEN calls' = [calls EXCEPT ![c].pc = "rejected", ![c].error = "mutator"]
     ELSE calls' = [calls EXCEPT ![c].pc = "resolved",
                      ![c].result = splitMutatorFactory(calls[c].splits.items)]
  /\ UNCHANGED <<matcher, selection, ga>>

SyncInit ==
  /\ since = InitialSince
  /\ calls = [c \in CallIds |-> IdleCall]

(***************************************************************************)
(* The equal-to-set matcher                                                *)
(***************************************************************************)
\* A JavaScript value of an attribute collection: a string or a number.
\* repr is what `e + ''` yields for it.
Str(x) == [type |-> "string", repr |-> x]
Num(x) == [type |-> "number", repr |-> x]
Elements == {Str("a"), Str("b"), Str("1"), Num("1")}
Strings == {"a", "b", "1"}

\* e => e + ''
ToStr(e) == e.repr

SeqsUpTo(S, n) == UNION {[1..k -> S] : k \in 0..n}
Range(f) == {f[i] : i \in DOMAIN f}
NoDuplicates(f) == \A i, j \in DOMAIN f : f[i] = f[j] => i = j

\* value.map(f)
RECURSIVE Map(_)
Map(items) ==
  IF items = <<>> THEN <<>>
  ELSE <<ToStr(Head(items))>> \o Map(Tail(items))

\* lodash uniq: the first occurrence of each element, in order.
RECURSIVE Uniq(_, _)
Uniq(items, seen) ==
  IF items = <<>> THEN <<>>
  ELSE IF Head(items) \in seen
       THEN Uniq(Tail(items), seen)
       ELSE <<Head(items)>> \o Uniq(Tail(items), seen \cup {Head(items)})

\* lodash isEqual on two arrays of strings: same length, equal element by
\* element.
IsEqual(a, b) ==
  /\ Len(a) = Len(b)
  /\ \A i \in 1..Len(a) : a[i] = b[i]

\* The attribute value handed to the matcher: an array, or something that is
\* no collection.
ArrayValue(items) == [kind |-> "array", items |-> items]
NonCollections ==
  { [kind |-> k, items |-> <<>>] : k \in {"undefined", "null", "number", "string"} }
MatcherValues == {ArrayValue(x) : x \in SeqsUpTo(Elements, MaxLen)} \cup NonCollections

\* The whitelists a matcher is built with: strings, no duplicates.
Whitelists == {w \in SeqsUpTo(Strings, MaxLen) : NoDuplicates(w)}

NoValue == [kind |-> "undefined", items |-> <<>>]
NoOutcome == [called |-> FALSE, threw |-> FALSE, ret |-> FALSE]

\* equalToSetMatcher(value): `value.map` is a TypeError for anything that is
\* not an array.
equalToSetMatcher(whitelist, value) ==
  IF value.kind # "array"
  THEN [called |-> TRUE, threw |-> TRUE, ret |-> FALSE]
  ELSE LET normalizedValue == Uniq(Map(value.items), {})
       IN [called |-> TRUE, threw |-> FALSE,
           ret |-> IsEqual(normalizedValue, whitelist)]

\* equalToSetMatcherContext(vo)
MatcherContext(whitelist) ==
  /\ ~matcher.built
  /\ matcher' = [built |-> TRUE, whitelist |-> whitelist, value |-> NoValue,
                 out |-> NoOutcome]
  /\ UNCHANGED <<since, calls, selection, ga>>

\* A call of the matcher the context returned.  The matcher keeps no state
\* between calls: one call per behaviour covers them all.
MatcherCall(value) ==
  /\ matcher.built
  /\ ~matcher.out.called
  /\ matcher' = [matcher EXCEPT !.value = value,
                   !.out = equalToSetMatcher(matcher.whitelist, value)]
  /\ UNCHANGED <<since, calls, selection, ga>>

MatcherInit ==
  matcher = [built |-> FALSE, whitelist |-> <<>>, value |-> NoValue,
             out |-> NoOutcome]

(***************************************************************************)
(* Partition selection of the split evaluator                              *)
(***************************************************************************)
\* partition sizes are percentages that sum to 100; buckets are 0..99
PercentTotal == 100
Buckets == 0..(PercentTotal - 1)

Treatments == <<"on", "off", "control", "v4", "v5">>
SizeValues == {0, 1, 30, 50, 69, 70, 99, 100}

RECURSIVE SumSizes(_)
SumSizes(sizes) ==
  IF sizes = <<>> THEN 0 ELSE Head(sizes) + SumSizes(Tail(sizes))

\* The partitions of a condition: declared order, sizes summing to 100.
PartitionLists ==
  { [i \in DOMAIN sizes |-> [treatment |-> Treatments[i], size |-> sizes[i]]] :
      sizes \in {z \in SeqsUpTo(SizeValues, MaxPartitions) :
                   SumSizes(z) = PercentTotal} }

\* Whether a cumulative bound selects bucket b.
BoundSelectsInclusive(bound, b) == bound >= b

BoundSelects(bound, b) == bound > b

\* Walk the partitions from index i with the sizes before i accumulated in
\* acc; the index of the first partition whose cumulative bound exceeds b,
\* 0 when the walk ends without one.
RECURSIVE Walk(_, _, _, _)
Walk(partitions, b, i, acc) ==
  IF i > Len(partitions) THEN 0
  ELSE IF BoundSelects(acc + partitions[i].size, b) THEN i
       ELSE Walk(partitions, b, i + 1, acc + partitions[i].size)

NoSelection == [done |-> FALSE, partitions |-> <<>>, bucket |-> 0, index |-> 0,
                treatment |-> "none"]

\* PARTITION_SELECT for a matched condition and the bucket of the key.  The
\* selection keeps no state: one evaluation per behaviour covers them all.
PartitionSelect(partitions, b) ==
  /\ ~selection.done
  /\ LET i == Walk(partitions, b, 1, 0)
     IN selection' = [done |-> TRUE, partitions |-> partitions, bucket |-> b,
                      index |-> i,
                      treatment |-> IF i = 0 THEN "none"
                                    ELSE partitions[i].treatment]
  /\ UNCHANGED <<since, calls, matcher, ga>>

SelectionInit == selection = NoSelection

(***************************************************************************)
(* The GaToSplit integration: the SplitTracker plugin                      *)
(***************************************************************************)
\* JavaScript values of the options objects.  kind "absent" stands for a key
\* the object does not have; name is a function's or string's identity.
Absent    == [kind |-> "absent",    name |-> "", items |-> <<>>]
Undefined == [kind |-> "undefined", name |-> "", items |-> <<>>]
Fn(n)     == [kind |-> "function",  name |-> n,  items |-> <<>>]
StrV(x)   == [kind |-> "string",    name |-> x,  items |-> <<>>]
NumV(x)   == [kind |-> "number",    name |-> x,  items |-> <<>>]
ObjV(x)   == [kind |-> "object",    name |-> x,  items |-> <<>>]
ArrV(xs)  == [kind |-> "array",     name |-> "", items |-> xs]

OptionKeys == {"filter", "mapper", "prefix", "identities"}

\* Identities: {key, trafficType} objects, or null.
Identity(kk, k, tk, t) ==
  [nil |-> FALSE, keyKind |-> kk, key |-> k, ttKind |-> tk, tt |-> t]
IdNull    == [nil |-> TRUE, keyKind |-> "undefined", key |-> "",
              ttKind |-> "undefined", tt |-> ""]
IdUser    == Identity("string", "u1", "string", "user")
IdAccount == Identity("number", "42", "string", "account")
IdNoTT    == Identity("string", "u1", "undefined", "")

defaultFilter == Fn("defaultFilter")
defaultMapper == Fn("defaultMapper")
defaultPrefix == StrV("ga")

\* const defaultOptions = {...}: identities default to the core key and
\* traffic type when both are set ("" stands for a missing setting).
defaultOptions(coreSettings) ==
  [filter |-> defaultFilter,
   mapper |-> defaultMapper,
   prefix |-> defaultPrefix,
   identities |->
     IF coreSettings.key # "" /\ coreSettings.trafficType # ""
     THEN ArrV(<<Identity("string", coreSettings.key, "string",
                          coreSettings.trafficType)>>)
     ELSE Undefined]

\* Object.assign({}, a, b, c): for each key the value of the last source that
\* has the key; a key set to undefined counts as had.
ObjectAssign(a, b, c) ==
  [k \in OptionKeys |->
     IF c[k].kind # "absent" THEN c[k]
     ELSE IF b[k].kind # "absent" THEN b[k]
     ELSE a[k]]

\* unicAsStrings(identities): duplicates removed, first occurrences kept.
unicAsStrings(items) == Uniq(items, {})

\* A filter callback that only drops null identities.
ValidIdentityLoose(identity) == ~identity.nil

\* The filter callback of validateIdentities.
ValidIdentity(identity) ==
  /\ ~identity.nil
  /\ identity.keyKind \in {"string", "number"}
  /\ identity.ttKind = "string"

RECURSIVE FilterValid(_)
FilterValid(items) ==
  IF items = <<>> THEN <<>>
  ELSE IF ValidIdentity(Head(items))
       THEN <<Head(items)>> \o FilterValid(Tail(items))
       ELSE FilterValid(Tail(items))

\* validateIdentities(identities)
validateIdentities(identities) ==
  IF identities.kind # "array" THEN Undefined
  ELSE ArrV(FilterValid(unicAsStrings(identities.items)))

isString(v) == v.kind = "string"

\* The prefix validation of the constructor.
ValidatedPrefix(prefix) == IF isString(prefix) THEN prefix ELSE Undefined

NoOptions == [k \in OptionKeys |-> Absent]
NoCore == [key |-> "", trafficType |-> ""]

\* GaToSplit(sdkOptions, storage, coreSettings): builds the defaults and
\* provides the plugin to the ga command queue.
GaToSplit(sdkOptions, coreSettings) ==
  /\ ~ga.provided
  /\ ga' = [ga EXCEPT !.provided = TRUE, !.sdkOptions = sdkOptions,
                      !.coreSettings = coreSettings]
  /\ UNCHANGED <<since, calls, matcher, selection>>

\* ga('require', 'splitTracker', pluginOptions): new SplitTracker(tracker,
\* pluginOptions).  installed tells whether sendHitTask was overwritten.
SplitTrackerConstructor(pluginOptions) ==
  /\ ga.provided
  /\ ~ga.required
  /\ LET opts == ObjectAssign(defaultOptions(ga.coreSettings), ga.sdkOptions,
                              pluginOptions)
         validIdentities == validateIdentities(opts.identities)
     IN IF validIdentities.kind = "undefined" \/ Len(validIdentities.items) = 0
        THEN ga' = [ga EXCEPT !.required = TRUE, !.pluginOptions = pluginOptions,
                              !.opts = opts, !.installed = FALSE]
        ELSE ga' = [ga EXCEPT !.required = TRUE, !.pluginOptions = pluginOptions,
                              !.opts = [opts EXCEPT
                                          !.identities = validIdentities,
                                          !.prefix = ValidatedPrefix(opts.prefix)],
                              !.installed = TRUE]
  /\ UNCHANGED <<since, calls, matcher, selection>>

(***************************************************************************)
(* The SplitTracker plugin: the overwritten sendHitTask                    *)
(***************************************************************************)
\* An EventData object.  what tells an EventData object from a falsy mapper
\* result and from the value of the global `event`; eventTypeId is the list
\* of the '.'-separated parts of the id, <<>> for a missing or invalid one;
\* valueOk and propertiesOk tell whether validateEventValue and
\* validateEventProperties accept `value` and `properties`.
Timestamp(k, at) == [kind |-> k, at |-> at]
NoTimestamp == Timestamp("missing", 0)

EventData(id, valueOk, propertiesOk, ts, key, tt) ==
  [what |-> "eventData", eventTypeId |-> id, valueOk |-> valueOk,
   propertiesOk |-> propertiesOk, timestamp |-> ts, key |-> key,
   trafficTypeName |-> tt]

Falsy ==
  [EventData(<<>>, TRUE, TRUE, NoTimestamp, Undefined, Undefined)
     EXCEPT !.what = "falsy"]

\* What the free identifier `event` of line 221 evaluates to where a global
\* of that name exists (window.event).
GlobalEvent ==
  [EventData(<<>>, TRUE, TRUE, NoTimestamp, Undefined, Undefined)
     EXCEPT !.what = "globalEvent"]

\* The object a custom mapper keeps and returns again on later hits.
KeptEvent ==
  EventData(<<"kept">>, TRUE, TRUE, NoTimestamp, Undefined, Undefined)

\* Objects a custom mapper builds for one hit.
FreshEvents ==
  { EventData(<<"x">>, TRUE, TRUE, NoTimestamp, Undefined, Undefined),
    EventData(<<"x">>, TRUE, TRUE, Timestamp("number", 7), Undefined, Undefined),
    EventData(<<"x">>, TRUE, TRUE, NoTimestamp, StrV("k"), StrV("t")),
    EventData(<<"x">>, TRUE, TRUE, NoTimestamp, StrV("k"), Undefined),
    EventData(<<>>, TRUE, TRUE, NoTimestamp, Undefined, Undefined),
    EventData(<<"x">>, FALSE, TRUE, NoTimestamp, Undefined, Undefined),
    EventData(<<"x">>, TRUE, TRUE, Timestamp("string", 0), Undefined, Undefined),
    EventData(<<"x">>, TRUE, TRUE, NoTimestamp, ObjV("key"), StrV("t")) }

\* What a custom mapper returns: a falsy value, a fresh object, or the object
\* it keeps.
MapperReturns ==
  {[from |-> "fresh", data |-> e] : e \in FreshEvents \cup {Falsy}}
    \cup {[from |-> "kept", data |-> Falsy]}

\* The hits (models) sent: hitType, and whether the hit's eventValue is one
\* validateEventValue accepts.
Hits ==
  { [hitType |-> "pageview", eventValueOk |-> TRUE],
    [hitType |-> "event", eventValueOk |-> TRUE],
    [hitType |-> "event", eventValueOk |-> FALSE] }

\* defaultMapper = mapperBuilder(defaultMapping): defaultMapping.eventTypeId
\* is empty, so the id is model.get('hitType').
defaultMapperOf(hit) ==
  EventData(<<hit.hitType>>, hit.eventValueOk, TRUE, NoTimestamp, Undefined,
            Undefined)

\* JavaScript truthiness of an option or field value.
Truthy(v) ==
  /\ v.kind \notin {"absent", "undefined"}
  /\ ~(v.kind = "string" /\ v.name = "")

TruthyTimestamp(ts) ==
  \/ ts.kind = "string"
  \/ ts.kind = "number" /\ ts.at # 0

\* validateEventData(data)
validateEventData(data) ==
  /\ data.eventTypeId # <<>>
  /\ data.valueOk
  /\ data.propertiesOk
  /\ ~(TruthyTimestamp(data.timestamp) /\ data.timestamp.kind # "number")
  /\ ~(Truthy(data.key) /\ data.key.kind \notin {"string", "number"})
  /\ ~(Truthy(data.trafficTypeName) /\ data.trafficTypeName.kind # "string")

\* A hit task that drops only falsy mapper results.
DroppedOnlyFalsy(usesDefault, eventData) == eventData.what = "falsy"

\* Line 210: the event is not sent if it is falsy, or invalid when a custom
\* mapper made it.
Dropped(usesDefault, eventData) ==
  \/ eventData.what = "falsy"
  \/ ~usesDefault /\ ~validateEventData(eventData)

\* Line 214: the prefix is put before the id when it is truthy.
WithPrefix(prefix, eventData) ==
  IF Truthy(prefix)
  THEN [eventData EXCEPT !.eventTypeId = <<prefix.name>> \o @]
  ELSE eventData

\* Line 217: the timestamp is Date.now() when there is none.
WithTimestamp(now, eventData) ==
  IF ~TruthyTimestamp(eventData.timestamp)
  THEN [eventData EXCEPT !.timestamp = Timestamp("number", now)]
  ELSE eventData

\* Entries of the trace of one hit: the call of the original sendHitTask and
\* the calls of storage.events.track.
OriginalCall == [op |-> "original", event |-> Falsy]
Track(event) == [op |-> "track", event |-> event]

IdentityKey(identity) ==
  IF identity.keyKind = "number" THEN NumV(identity.key) ELSE StrV(identity.key)

\* Object.assign({key: identity.key, trafficTypeName: identity.trafficType},
\* eventData): a key or trafficTypeName of eventData wins.
IdentityEvent(identity, eventData) ==
  [eventData EXCEPT
     !.key = IF eventData.key.kind \in {"absent", "undefined"}
             THEN IdentityKey(identity) ELSE @,
     !.trafficTypeName = IF eventData.trafficTypeName.kind \in {"absent", "undefined"}
                         THEN StrV(identity.tt) ELSE @]

\* opts.identities.forEach(identity => storage.events.track(event))
RECURSIVE TrackEach(_, _)
TrackEach(identities, eventData) ==
  IF identities = <<>> THEN <<>>
  ELSE <<Track(IdentityEvent(Head(identities), eventData))>>
         \o TrackEach(Tail(identities), eventData)

\* Lines 219-230.  In the first branch `event` is not the local of that name:
\* where a global `event` exists its value is stored, elsewhere the read is a
\* ReferenceError and nothing is stored.
Store(identities, eventData, globalEvent) ==
  IF Truthy(eventData.key) /\ Truthy(eventData.trafficTypeName)
  THEN IF globalEvent = "defined" THEN <<Track(GlobalEvent)>> ELSE <<>>
  ELSE TrackEach(identities, eventData)

\* A hit task that calls the original task after the plugin's work.
WithOriginalLast(calls_) == calls_ \o <<OriginalCall>>

\* Line 204: the original sendHitTask runs first.
WithOriginal(calls_) == <<OriginalCall>> \o calls_

NoHit ==
  [accepted |-> FALSE, usesDefault |-> TRUE, from |-> "none",
   returned |-> Falsy, trace |-> <<>>]

\* The function set as 'sendHitTask' (lines 203-231) run on one hit: accepted
\* is what opts.filter returns, ret what a custom mapper returns.  The result
\* holds the trace of the hit and the object the custom mapper keeps.
sendHitTask(opts, kept, now, hit, accepted, ret, globalEvent) ==
  LET usesDefault == opts.mapper = defaultMapper
      mapped == IF usesDefault THEN defaultMapperOf(hit)
                ELSE IF ret.from = "kept" THEN kept ELSE ret.data
      eventData == IF accepted THEN mapped ELSE Falsy
      final == WithTimestamp(now, WithPrefix(opts.prefix, eventData))
      dropped == Dropped(usesDefault, eventData)
  IN [last |-> [accepted |-> accepted, usesDefault |-> usesDefault,
                from |-> IF accepted /\ ~usesDefault THEN ret.from ELSE "none",
                returned |-> eventData,
                trace |-> WithOriginal(IF dropped THEN <<>>
                                       ELSE Store(opts.identities.items, final,
                                                  globalEvent))],
      kept |-> IF ~dropped /\ accepted /\ ~usesDefault /\ ret.from = "kept"
               THEN final ELSE kept]

\* A hit sent through the tracker: the overwritten task when the constructor
\* installed it, the original task alone otherwise.
SendHit(hit, filterResult, ret, globalEvent) ==
  /\ ga.required
  /\ ga.hits < MaxHits
  /\ LET accepted == IF ga.opts.filter = defaultFilter THEN TRUE ELSE filterResult
         out == sendHitTask(ga.opts, ga.kept, ga.now, hit, accepted, ret,
                            globalEvent)
     IN IF ga.installed
        THEN ga' = [ga EXCEPT !.hits = @ + 1, !.now = @ + 1,
                              !.last = out.last, !.kept = out.kept]
        ELSE ga' = [ga EXCEPT !.hits = @ + 1, !.now = @ + 1,
                              !.last = [NoHit EXCEPT !.trace = <<OriginalCall>>]]
  /\ UNCHANGED <<since, calls, matcher, selection>>

\* The options of the configurations hits are sent through.
HitSdkOptionsSet ==
  [filter : {Absent, Fn("sdkFilter")},
   mapper : {Absent, Fn("sdkMapper")},
   prefix : {Absent, StrV(""), NumV("7")},
   identities : {Absent, ArrV(<<IdUser, IdAccount>>), ArrV(<<IdNoTT>>)}]

HitPluginOptionsSet ==
  { NoOptions, [NoOptions EXCEPT !.identities = ObjV("identities")] }

HitCoreSettingsSet == { NoCore, [key |-> "coreKey", trafficType |-> "user"] }

GaInit ==
  ga = [provided |-> FALSE, sdkOptions |-> NoOptions, coreSettings |-> NoCore,
        required |-> FALSE, pluginOptions |-> NoOptions, opts |-> NoOptions,
        installed |-> FALSE, hits |-> 0, now |-> 1, kept |-> KeptEvent,
        last |-> NoHit]

\* The options the SDK configuration and the page give.
SdkOptionsSet ==
  [filter : {Absent, Fn("sdkFilter")},
   mapper : {Absent, Fn("sdkMapper")},
   prefix : {Absent, StrV("sdk"), NumV("7")},
   identities : {Absent, ArrV(<<IdUser>>), ArrV(<<IdNoTT>>), ObjV("identities")}]

PluginOptionsSet ==
  [filter : {Absent, Fn("pluginFilter")},
   mapper : {Absent, Fn("pluginMapper")},
   prefix : {Absent, StrV("plugin"), StrV("")},
   identities : {Absent, ArrV(<<IdAccount, IdAccount, IdNull>>), Undefined}]

CoreSettingsSet ==
  { NoCore,
    [key |-> "coreKey", trafficType |-> ""],
    [key |-> "coreKey", trafficType |-> "user"] }

Init == SyncInit /\ MatcherInit /\ SelectionInit /\ GaInit

\* Overlapping invocations, any till.
Next ==
  \/ \E c \in CallIds : Invoke(c)
  \/ \E c \in CallIds : FetchResolve(c)
  \/ \E c \in CallIds : FetchReject(c)
  \/ \E c \in CallIds, t \in TillValues, s \in SplitsPayloads : JsonResolve(c, t, s)
  \/ \E c \in CallIds : JsonReject(c)
  \/ \E c \in CallIds : ThenHandler(c)

Spec == Init /\ [][Next]_vars

\* One sync at a time (the caller's interval is longer than a sync), any till.
NextSeq ==
  \/ \E c \in CallIds : InvokeSeq(c)
  \/ \E c \in CallIds : FetchResolve(c)
  \/ \E c \in CallIds : FetchReject(c)
  \/ \E c \in CallIds, t \in TillValues, s \in SplitsPayloads : JsonResolve(c, t, s)
  \/ \E c \in CallIds : JsonReject(c)
  \/ \E c \in CallIds : ThenHandler(c)

SpecSeq == Init /\ [][NextSeq]_vars

\* Overlapping invocations against a server that never answers a request
\* with a till below the since it was asked for.
NextMonotoneServer ==
  \/ \E c \in CallIds : Invoke(c)
  \/ \E c \in CallIds : FetchResolve(c)
  \/ \E c \in CallIds : FetchReject(c)
  \/ \E c \in CallIds, t \in TillValues, s \in SplitsPayloads :
       JsonResolveMonotone(c, t, s)
  \/ \E c \in CallIds : JsonReject(c)
  \/ \E c \in CallIds : ThenHandler(c)

SpecMonotoneServer == Init /\ [][NextMonotoneServer]_vars

\* Several pipeline instances use the data source, one sync at a time.
NextInstances ==
  \/ \E p \in Pipelines, c \in CallIds : InvokeBy(p, c)
  \/ \E c \in CallIds : FetchResolve(c)
  \/ \E c \in CallIds : FetchReject(c)
  \/ \E c \in CallIds, t \in TillValues, s \in SplitsPayloads : JsonResolve(c, t, s)
  \/ \E c \in CallIds : JsonReject(c)
  \/ \E c \in CallIds : ThenHandler(c)

SpecInstances == Init /\ [][NextInstances]_vars

\* Hits sent through a tracker that required the plugin.
NextHits ==
  \/ \E o \in HitSdkOptionsSet, cs \in HitCoreSettingsSet : GaToSplit(o, cs)
  \/ \E o \in HitPluginOptionsSet : SplitTrackerConstructor(o)
  \/ \E h \in Hits, f \in BOOLEAN, r \in MapperReturns,
        g \in {"defined", "unresolvable"} : SendHit(h, f, r, g)

SpecHits == Init /\ [][NextHits]_vars

\* The equal-to-set matcher on every whitelist and attribute value.
NextMatcher ==
  \/ \E w \in Whitelists : MatcherContext(w)
  \/ \E v \in MatcherValues : MatcherCall(v)

SpecMatcher == Init /\ [][NextMatcher]_vars

\* Partition selection on every partition list and bucket.
NextSelection ==
  \E p \in PartitionLists, b \in Buckets : PartitionSelect(p, b)

SpecSelection == Init /\ [][NextSelection]_vars

\* The plugin provided and required with every combination of options.
NextGa ==
  \/ \E o \in SdkOptionsSet, cs \in CoreSettingsSet : GaToSplit(o, cs)
  \/ \E o \in PluginOptionsSet : SplitTrackerConstructor(o)

SpecGa == Init /\ [][NextGa]_vars

(***************************************************************************)
(* Claims about ds/splitChanges.js                                         *)
(***************************************************************************)
Invoked(c) == calls[c].pc # "idle"

\* The handler of call c ran: `since = till` was executed for it.
Applied(c) ==
  \/ calls[c].pc = "resolved"
  \/ calls[c].pc = "rejected" /\ calls[c].error = "mutator"

\* The sync of call c failed before its body was available.
FailedBeforeBody(c) ==
  calls[c].pc = "rejected" /\ calls[c].error \in {"transport", "parse"}

LastInvoked(c) == Invoked(c) /\ \A d \in CallIds : d > c => ~Invoked(d)

\* C1: across successful syncs the cursor is non-decreasing, whatever till
\* the fetch collaborator returns: a step that completes a sync successfully
\* leaves since greater than or equal to its value before that step.
C1_CursorNonDecreasing ==
  [][\A c \in CallIds :
       (calls[c].pc = "then" /\ calls'[c].pc = "resolved") => since' >= since]_vars

\* C2: a sync that fails on the transport or on parsing the body leaves the
\* cursor as it was when the sync was invoked, and the next sync requests the
\* same since again (one sync at a time).
C2_FailedSyncKeepsCursor ==
  \A c \in CallIds :
    FailedBeforeBody(c) =>
      /\ LastInvoked(c) => since = calls[c].reqSince
      /\ (c + 1 \in CallIds /\ Invoked(c + 1)) =>
            calls[c + 1].reqSince = calls[c].reqSince

\* C2 witness: after the cursor has advanced, a sync failed on the transport
\* and another on parsing, and the sync after a failed one has been invoked.
C2_Witness ==
  \E c \in CallIds, d \in CallIds :
    /\ FailedBeforeBody(c) /\ calls[c].error = "transport"
    /\ FailedBeforeBody(d) /\ calls[d].error = "parse"
    /\ calls[c].reqSince # InitialSince
    /\ c + 1 \in CallIds /\ Invoked(c + 1)

\* C3: when the Split Mutator fails on the fetched splits the cursor is held
\* back: the step in which the handler fails leaves since unchanged, and
\* since changes only in a step that also yields the mutated split map.
C3_CursorHeldBackOnMutatorFailure ==
  [][/\ \A c \in CallIds :
          (calls[c].pc = "then" /\ calls'[c].pc = "rejected") => since' = since
     /\ since' # since =>
          \E c \in CallIds : calls[c].pc = "then" /\ calls'[c].pc = "resolved"]_vars

\* C4: a poll answered with till equal to the since it requested succeeds
\* without publishing: no such sync ends by handing a split map to its
\* consumer.
C4_NoPublishWhenTillEqualsSince ==
  \A c \in CallIds :
    calls[c].pc = "resolved" => calls[c].till # calls[c].reqSince

\* C9: with overlapping invocations and a server that answers every request
\* with till >= the requested since, once every response is processed the
\* cursor is not lower than any till that was applied.
C9_OverlapCursorNotLowerThanApplied ==
  (\A c \in CallIds : ~InFlight(c) /\ calls[c].error # "mutator") =>
    \A c \in CallIds : Applied(c) => since >= calls[c].till

\* C10: a request carries the cursor current when the sync is invoked: the
\* first request carries -1, and the request of the sync that follows a
\* successful sync which returned till = T carries T (one sync at a time).
C10_RequestCarriesCurrentCursor ==
  /\ Invoked(1) => calls[1].reqSince = -1
  /\ \A c \in CallIds :
       (c + 1 \in CallIds /\ calls[c].pc = "resolved" /\ Invoked(c + 1)) =>
          calls[c + 1].reqSince = calls[c].till
  /\ \A c \in CallIds :
       (LastInvoked(c) /\ calls[c].pc \in {"fetch", "json", "then"}) =>
          calls[c].reqSince = since

\* C10 witness: two successful syncs in a row returned different tills and
\* the sync after them has been invoked.
C10_Witness ==
  \E c \in CallIds :
    /\ c + 2 \in CallIds
    /\ calls[c].pc = "resolved" /\ calls[c + 1].pc = "resolved"
    /\ calls[c].till # calls[c + 1].till
    /\ calls[c + 1].till # InitialSince
    /\ Invoked(c + 2)

\* C11: the cursor belongs to one pipeline instance: a sync of one instance
\* leaves the cursor of any other instance unchanged, so the since a request
\* of an instance carries is the initial one or a till applied by a sync of
\* that same instance.
C11_CursorOwnedByInstance ==
  \A c \in CallIds :
    Invoked(c) =>
      \/ calls[c].reqSince = InitialSince
      \/ \E d \in CallIds :
            /\ calls[d].owner = calls[c].owner
            /\ Applied(d)
            /\ calls[d].till = calls[c].reqSince

(***************************************************************************)
(* Claims about the equal-to-set matcher                                   *)
(***************************************************************************)
\* C5: on a collection the matcher returns true if and only if the set of
\* the string-coerced elements equals the whitelist as a set, whatever the
\* order and the repetitions of the input.
C5_EqualToSetComparesAsSets ==
  (matcher.out.called /\ matcher.value.kind = "array") =>
     /\ ~matcher.out.threw
     /\ matcher.out.ret <=>
          ({ToStr(e) : e \in Range(matcher.value.items)} = Range(matcher.whitelist))

\* C6: the matcher never raises: for a missing, null or otherwise
\* non-collection value it returns false.
C6_EqualToSetNeverRaises ==
  matcher.out.called =>
     /\ ~matcher.out.threw
     /\ matcher.value.kind # "array" => matcher.out.ret = FALSE

(***************************************************************************)
(* Claims about partition selection                                        *)
(***************************************************************************)
\* The cumulative bound of partition i: the sizes of partitions 1..i.
RECURSIVE Cumulative(_, _)
Cumulative(partitions, i) ==
  IF i = 0 THEN 0 ELSE partitions[i].size + Cumulative(partitions, i - 1)

\* The partitions that are the first whose cumulative bound exceeds b.
FirstExceeding(partitions, b) ==
  { i \in 1..Len(partitions) :
      /\ Cumulative(partitions, i) > b
      /\ \A j \in 1..(i - 1) : Cumulative(partitions, j) <= b }

\* C8: for partitions summing to 100 and every bucket in 0..99 the walk
\* selects exactly one partition, the first whose cumulative bound exceeds the
\* bucket, and returns that partition's treatment.
C8_PartitionSelectionTotalUnique ==
  selection.done =>
     /\ selection.index \in 1..Len(selection.partitions)
     /\ FirstExceeding(selection.partitions, selection.bucket) = {selection.index}
     /\ selection.treatment = selection.partitions[selection.index].treatment

\* C8 witness: a selection among three partitions, one of them empty, took
\* the last one for a bucket on the boundary of the one before it.
C8_Witness ==
  /\ selection.done
  /\ Len(selection.partitions) = 3
  /\ \E i \in 1..3 : selection.partitions[i].size = 0
  /\ selection.index = 3
  /\ selection.bucket = Cumulative(selection.partitions, 2)

(***************************************************************************)
(* Claims about the SplitTracker plugin                                    *)
(***************************************************************************)
\* What the constructor keeps of the value v the merge gives option k: the
\* validated identities and prefix once the tracker is set up, v otherwise.
Kept(k, v) ==
  IF ~ga.installed THEN v
  ELSE IF k = "identities" THEN validateIdentities(v)
  ELSE IF k = "prefix" THEN ValidatedPrefix(v)
  ELSE v

\* C7: SDK options take precedence over the options of ga('require',
\* 'splitTracker', pluginOptions): a key present in both has the SDK value,
\* and the default applies only to a key present in neither.
C7_SdkOptionsTakePrecedence ==
  ga.required =>
    \A k \in OptionKeys :
      LET inSdk == ga.sdkOptions[k].kind # "absent"
          inPlugin == ga.pluginOptions[k].kind # "absent"
      IN /\ inSdk => ga.opts[k] = Kept(k, ga.sdkOptions[k])
         /\ (~inSdk /\ inPlugin) => ga.opts[k] = Kept(k, ga.pluginOptions[k])
         /\ (~inSdk /\ ~inPlugin) =>
               ga.opts[k] = Kept(k, defaultOptions(ga.coreSettings)[k])

(***************************************************************************)
(* Claims about the overwritten sendHitTask                                *)
(***************************************************************************)
\* The events stored with storage.events.track during the last hit.
RECURSIVE Tracked(_)
Tracked(trace) ==
  IF trace = <<>> THEN <<>>
  ELSE IF Head(trace).op = "track"
       THEN <<Head(trace).event>> \o Tracked(Tail(trace))
       ELSE Tracked(Tail(trace))

RECURSIVE OriginalCalls(_)
OriginalCalls(trace) ==
  IF trace = <<>> THEN 0
  ELSE (IF Head(trace).op = "original" THEN 1 ELSE 0) + OriginalCalls(Tail(trace))

\* A hit went through the overwritten task.
HitHandled == ga.installed /\ ga.hits > 0

\* The last hit's eventData passed line 210.
LastHitKept ==
  /\ ga.last.returned.what = "eventData"
  /\ ga.last.usesDefault \/ validateEventData(ga.last.returned)

\* An event that is eventData but for its eventTypeId and timestamp, which
\* the task sets.
SameButIdAndTime(event, eventData) ==
  [event EXCEPT !.eventTypeId = <<>>, !.timestamp = NoTimestamp]
    = [eventData EXCEPT !.eventTypeId = <<>>, !.timestamp = NoTimestamp]

\* C12: when eventData carries both key and trafficTypeName exactly that
\* eventData is stored exactly once; otherwise one event is stored per
\* identity, carrying the identity's key and trafficType merged with
\* eventData.
C12_KeyedEventStoredOnce ==
  (HitHandled /\ LastHitKept) =>
    LET stored == Tracked(ga.last.trace)
        eventData == ga.last.returned
        identities == ga.opts.identities.items
    IN IF Truthy(eventData.key) /\ Truthy(eventData.trafficTypeName)
       THEN /\ Len(stored) = 1
            /\ SameButIdAndTime(stored[1], eventData)
       ELSE /\ Len(stored) = Len(identities)
            /\ \A i \in 1..Len(stored) :
                 SameButIdAndTime(stored[i],
                                  IdentityEvent(identities[i], eventData))

\* C13: no event is stored for a hit the filter rejects, for a hit whose
\* mapper returns a falsy value, or for a hit whose eventData comes from a
\* custom mapper and fails validateEventData; eventData of the default mapper
\* is stored without being validated.
C13_NoEventForRejectedOrInvalid ==
  HitHandled =>
    LET stored == Tracked(ga.last.trace)
    IN /\ ~ga.last.accepted => stored = <<>>
       /\ ga.last.returned.what = "falsy" => stored = <<>>
       /\ (~ga.last.usesDefault /\ ~validateEventData(ga.last.returned)) =>
             stored = <<>>
       /\ (ga.last.usesDefault /\ ga.last.accepted) =>
             Len(stored) = Len(ga.opts.identities.items)

\* C13 witness: a custom mapper returned an EventData object that fails the
\* validation, for a hit the filter accepted, and nothing was stored.
C13_Witness ==
  /\ HitHandled
  /\ ga.last.accepted
  /\ ~ga.last.usesDefault
  /\ ga.last.returned.what = "eventData"
  /\ ~validateEventData(ga.last.returned)
  /\ Tracked(ga.last.trace) = <<>>

\* C14: for every hit sent through a tracker that required the plugin the
\* original sendHitTask is invoked exactly once, before any event is stored,
\* also when no valid identity was configured.
C14_OriginalTaskOnceAndFirst ==
  (ga.required /\ ga.hits > 0) =>
    /\ OriginalCalls(ga.last.trace) = 1
    /\ Head(ga.last.trace).op = "original"

\* C14 witness: a hit for which the original task ran and one event per
\* identity was stored after it.
C14_Witness ==
  /\ HitHandled
  /\ Len(ga.last.trace) = 3
  /\ ga.last.trace[1].op = "original"
  /\ ga.last.trace[2].op = "track" /\ ga.last.trace[3].op = "track"

\* The identities option holds no valid identity: it is no array, or each of
\* its elements is null or lacks a string/number key or a string trafficType.
NoUsableIdentity(identities) ==
  \/ identities.kind # "array"
  \/ \A i \in 1..Len(identities.items) :
       LET identity == identities.items[i]
       IN \/ identity.nil
          \/ identity.keyKind \notin {"string", "number"}
          \/ identity.ttKind # "string"

\* C15: GaToSplit provides the plugin whatever the configuration, and when
\* the identities leave no valid identity the constructor leaves sendHitTask
\* untouched, so that no event is stored for any hit of that tracker.
C15_NoIdentityNoEvents ==
  /\ (ga.sdkOptions # NoOptions \/ ga.coreSettings # NoCore) => ga.provided
  /\ (ga.required /\
      NoUsableIdentity(ObjectAssign(defaultOptions(ga.coreSettings), ga.sdkOptions,
                                    ga.pluginOptions).identities)) =>
        /\ ~ga.installed
        /\ Tracked(ga.last.trace) = <<>>

\* C15 witness: the plugin was required with an identities array holding only
\* invalid identities, and hits were sent through the tracker.
C15_Witness ==
  /\ ga.required
  /\ ga.hits = MaxHits
  /\ ga.sdkOptions.identities = ArrV(<<IdNoTT>>)
  /\ ga.pluginOptions.identities.kind = "absent"
  /\ ~ga.installed

\* C16: every stored event's eventTypeId is the mapper's eventTypeId with the
\* prefix applied exactly once when the prefix is a non-empty string, and
\* unchanged otherwise, also when a custom mapper returns the same object for
\* successive hits; a timestamp present in eventData is preserved, a missing
\* one is set to the current time.
C16_PrefixAppliedOnce ==
  HitHandled =>
    LET stored == Tracked(ga.last.trace)
        mapperId == IF ga.last.from = "kept" THEN KeptEvent.eventTypeId
                    ELSE ga.last.returned.eventTypeId
        prefix == ga.opts.prefix
    IN \A i \in 1..Len(stored) :
         stored[i].what = "eventData" =>
           /\ stored[i].eventTypeId =
                IF prefix.kind = "string" /\ prefix.name # ""
                THEN <<prefix.name>> \o mapperId ELSE mapperId
           /\ stored[i].timestamp =
                IF TruthyTimestamp(ga.last.returned.timestamp)
                THEN ga.last.returned.timestamp
                ELSE Timestamp("number", ga.now - 1)

====
